---- MODULE Spec2Model ----
(***************************************************************************)
(* Councillor directory UI: the list view (pages/Index.tsx), the card      *)
(* (components/CouncillorCard.tsx) and the detail view                     *)
(* (components/CouncillorDetail.tsx) over the static store                 *)
(* data/councillor_results.json (types/councillor.ts).                     *)
(*                                                                         *)
(* Strings are sequences of Unicode code points (37 is "%", 65 is "A",     *)
(* 97 is "a").  Only well-formed strings are modelled.                     *)
(***************************************************************************)
EXTENDS Integers, Sequences, FiniteSets, TLC

\* ------------------------------------------------------------------ bounds
MaxNameLen == 2
MaxStore == 2
MaxTermLen == 2
MaxSegLen == 2
MaxTotalResults == 2
MaxCount == 2

\* code points the bounded strings are built from: % A a
Alphabet == {37, 65, 97}

RECURSIVE StringsUpTo(_)
StringsUpTo(n) ==
  IF n = 0 THEN {<<>>}
  ELSE LET shorter == StringsUpTo(n - 1)
       IN shorter \cup {Append(s, c) : s \in {t \in shorter : Len(t) = n - 1}, c \in Alphabet}

\* ------------------------------------------------- String.prototype helpers
\* String.prototype.toLowerCase on one code point (ASCII letters; the other
\* code points of the alphabet have no case)
LowerChar_CaseSensitive(c) == c
LowerChar(c) == IF c >= 65 /\ c <= 90 THEN c + 32 ELSE c

ToLowerCase(s) == [i \in 1..Len(s) |-> LowerChar(s[i])]

\* String.prototype.includes
Includes(s, t) ==
  \E k \in 0..(Len(s) - Len(t)) : SubSeq(s, k + 1, k + Len(t)) = t

\* ------------------------------------------------------ encodeURIComponent
\* uriUnreserved: A-Z a-z 0-9 - _ . ! ~ * ' ( )
IsUnreserved(c) ==
  \/ (c >= 65 /\ c <= 90) \/ (c >= 97 /\ c <= 122) \/ (c >= 48 /\ c <= 57)
  \/ c \in {45, 95, 46, 33, 126, 42, 39, 40, 41}

HexDigit(n) == IF n < 10 THEN 48 + n ELSE 55 + n

HexVal(c) ==
  IF c >= 48 /\ c <= 57 THEN c - 48
  ELSE IF c >= 65 /\ c <= 70 THEN c - 55
  ELSE IF c >= 97 /\ c <= 102 THEN c - 87
  ELSE -1

Utf8(cp) ==
  IF cp < 128 THEN <<cp>>
  ELSE IF cp < 2048 THEN <<192 + (cp \div 64), 128 + (cp % 64)>>
  ELSE IF cp < 65536
    THEN <<224 + (cp \div 4096), 128 + ((cp \div 64) % 64), 128 + (cp % 64)>>
  ELSE <<240 + (cp \div 262144), 128 + ((cp \div 4096) % 64),
         128 + ((cp \div 64) % 64), 128 + (cp % 64)>>

RECURSIVE PercentBytes(_)
PercentBytes(bytes) ==
  IF bytes = <<>> THEN <<>>
  ELSE <<37, HexDigit(Head(bytes) \div 16), HexDigit(Head(bytes) % 16)>>
       \o PercentBytes(Tail(bytes))

RECURSIVE EncodeURIComponent(_)
EncodeURIComponent(s) ==
  IF s = <<>> THEN <<>>
  ELSE (IF IsUnreserved(Head(s)) THEN <<Head(s)>> ELSE PercentBytes(Utf8(Head(s))))
       \o EncodeURIComponent(Tail(s))

\* ------------------------------------------------------ decodeURIComponent
\* a result is [ok |-> TRUE, value |-> the string] or, when the call throws
\* URIError, [ok |-> FALSE, value |-> <<>>]
URIError == [ok |-> FALSE, value |-> <<>>]

\* s has an escape %XX at position i
EscapeAt(s, i) ==
  /\ i + 2 <= Len(s)
  /\ s[i] = 37
  /\ HexVal(s[i + 1]) >= 0
  /\ HexVal(s[i + 2]) >= 0

ByteAt(s, i) == 16 * HexVal(s[i + 1]) + HexVal(s[i + 2])

\* number of octets announced by a lead byte (0: not a lead byte)
OctetCount(b) ==
  IF b < 128 THEN 1
  ELSE IF b >= 192 /\ b <= 223 THEN 2
  ELSE IF b >= 224 /\ b <= 239 THEN 3
  ELSE IF b >= 240 /\ b <= 247 THEN 4
  ELSE 0

ContinuationsAt(s, i, n) ==
  \A k \in 1..(n - 1) :
    /\ EscapeAt(s, i + 3 * k)
    /\ ByteAt(s, i + 3 * k) >= 128
    /\ ByteAt(s, i + 3 * k) <= 191

CodePointAt(s, i, n) ==
  LET b == ByteAt(s, i)
      c(k) == ByteAt(s, i + 3 * k) - 128
  IN IF n = 1 THEN b
     ELSE IF n = 2 THEN (b - 192) * 64 + c(1)
     ELSE IF n = 3 THEN (b - 224) * 4096 + c(1) * 64 + c(2)
     ELSE (b - 240) * 262144 + c(1) * 4096 + c(2) * 64 + c(3)

ValidCodePoint(cp, n) ==
  IF n = 1 THEN TRUE
  ELSE IF n = 2 THEN cp >= 128
  ELSE IF n = 3 THEN cp >= 2048 /\ ~(cp >= 55296 /\ cp <= 57343)
  ELSE cp >= 65536 /\ cp <= 1114111

RECURSIVE DecodeFrom(_, _)
DecodeFrom(s, i) ==
  IF i > Len(s) THEN [ok |-> TRUE, value |-> <<>>]
  ELSE IF s[i] # 37
    THEN LET rest == DecodeFrom(s, i + 1)
         IN IF rest.ok THEN [ok |-> TRUE, value |-> <<s[i]>> \o rest.value] ELSE URIError
  ELSE IF ~EscapeAt(s, i) THEN URIError
  ELSE LET n == OctetCount(ByteAt(s, i))
       IN IF n = 0 THEN URIError
          ELSE IF ~ContinuationsAt(s, i, n) THEN URIError
          ELSE IF ~ValidCodePoint(CodePointAt(s, i, n), n) THEN URIError
          ELSE LET rest == DecodeFrom(s, i + 3 * n)
               IN IF rest.ok
                    THEN [ok |-> TRUE, value |-> <<CodePointAt(s, i, n)>> \o rest.value]
                    ELSE URIError

DecodeURIComponent(s) == DecodeFrom(s, 1)

\* ----------------------------------------------------------- the data model
\* types/councillor.ts: SearchResult.  relevance_score is held in quarters
\* (3 is 0.75), which are exact as doubles; search_time "" is the absent one.
SampleResults ==
  { [title |-> "X", link |-> "http://x", snippet |-> "s", search_time |-> "1s",
     relevance_score |-> 3],
    [title |-> "Y", link |-> "http://y", snippet |-> "t", search_time |-> "",
     relevance_score |-> 1] }

\* types/councillor.ts: the keys of CategoryResults, in declaration order
CategoryOrder == <<"basic_info", "social_media", "business_interests", "controversy">>

CategoryNames == {CategoryOrder[i] : i \in 1..Len(CategoryOrder)}

RECURSIVE ResultSeqs(_)
ResultSeqs(n) ==
  IF n = 0 THEN {<<>>}
  ELSE LET shorter == ResultSeqs(n - 1)
       IN shorter \cup {Append(q, r) : q \in {t \in shorter : Len(t) = n - 1}, r \in SampleResults}

TotalLen(cats) ==
  Len(cats["basic_info"]) + Len(cats["social_media"])
  + Len(cats["business_interests"]) + Len(cats["controversy"])

\* CategoryResults holding at most MaxTotalResults results in all
CategoryResultsSet ==
  {cats \in [CategoryNames -> ResultSeqs(MaxTotalResults)] : TotalLen(cats) <= MaxTotalResults}

\* Summary: any stored numbers, whether or not they agree with the categories
SummarySet ==
  {[total_results |-> t, potential_interests |-> x.pi, controversy_count |-> c,
    has_social_media |-> x.hsm] :
      t \in 0..MaxCount, c \in 0..MaxCount,
      x \in {[pi |-> <<>>, hsm |-> FALSE], [pi |-> <<"property">>, hsm |-> TRUE]}}

CouncillorDataSet == {[categories |-> cats, summary |-> sm] : cats \in CategoryResultsSet, sm \in SummarySet}

\* the record given to the k-th entry of a store whose names vary
SampleData(k) ==
  [categories |-> [c \in CategoryNames |->
                     IF c = "controversy" /\ k = 1 THEN <<CHOOSE r \in SampleResults : r.title = "X">>
                     ELSE <<>>],
   summary |-> [total_results |-> k, potential_interests |-> <<>>,
                controversy_count |-> IF k = 1 THEN 1 ELSE 0, has_social_media |-> FALSE]]

\* ---------------------------------------------------------------- the store
\* CouncillorResults: the own properties of the imported object, as the
\* sequence of [name, data] entries in property order.
\* shorter names first, names of one length in code point order
NameBefore(a, b) ==
  \/ Len(a) < Len(b)
  \/ /\ Len(a) = Len(b)
     /\ \E k \in 1..Len(a) : SubSeq(a, 1, k - 1) = SubSeq(b, 1, k - 1) /\ a[k] < b[k]

\* the keys of an object are distinct; the stores are taken with their
\* entries in one order, which no key of the alphabet is moved out of (none
\* is an array index)
DistinctNames(entries) ==
  \A i, j \in 1..Len(entries) : i < j => NameBefore(entries[i].name, entries[j].name)

Names == StringsUpTo(MaxNameLen) \ {<<>>}

RECURSIVE NameSeqs(_)
NameSeqs(n) ==
  IF n = 0 THEN {<<>>}
  ELSE LET shorter == NameSeqs(n - 1)
       IN shorter \cup {Append(q, nm) : q \in {t \in shorter : Len(t) = n - 1}, nm \in Names}

\* stores of up to MaxStore councillors whose names vary
NameStores ==
  {entries \in {[i \in 1..Len(q) |-> [name |-> q[i], data |-> SampleData(i)]] : q \in NameSeqs(MaxStore)} :
     DistinctNames(entries)}

\* stores of one councillor, "A", whose record varies
RecordStores == {<<[name |-> <<65>>, data |-> d]>> : d \in CouncillorDataSet}

StoreUniverse == NameStores \cup RecordStores

StoreKeys(entries) == {entries[i].name : i \in 1..Len(entries)}

\* Object.entries(councillorData)
ObjectEntries(entries) == entries

\* names Object.prototype defines: constructor, toString, valueOf
ObjectPrototypeKeys ==
  { <<99, 111, 110, 115, 116, 114, 117, 99, 116, 111, 114>>,
    <<116, 111, 83, 116, 114, 105, 110, 103>>,
    <<118, 97, 108, 117, 101, 79, 102>> }

\* councillorData[key]: an own property, else one inherited from
\* Object.prototype (a function, truthy, without categories), else undefined
PropertyGet(entries, key) ==
  IF key \in StoreKeys(entries)
    THEN [kind |-> "own", data |-> (CHOOSE e \in {entries[i] : i \in 1..Len(entries)} : e.name = key).data]
  ELSE IF key \in ObjectPrototypeKeys THEN [kind |-> "inherited", data |-> <<>>]
  ELSE [kind |-> "undefined", data |-> <<>>]

\* -------------------------------------------------------- CouncillorCard
\* category.replace('_', ' ')
CategoryLabel(category) ==
  CASE category = "basic_info" -> "basic info"
    [] category = "social_media" -> "social media"
    [] category = "business_interests" -> "business interests"
    [] OTHER -> category

\* Object.entries(data.categories)
CategoryEntries(categories) ==
  [i \in 1..Len(CategoryOrder) |->
     [category |-> CategoryOrder[i], results |-> categories[CategoryOrder[i]]]]

CardCategoryIcon(category) ==
  CASE category = "basic_info" -> "Info"
    [] category = "business_interests" -> "Briefcase"
    [] category = "social_media" -> "Share2"
    [] category = "controversy" -> "AlertTriangle"
    [] OTHER -> "null"

\* results.length > 0 && <Badge>
ShowBadge_Always(results) == Len(results) >= 0
ShowBadge(results) == Len(results) > 0

BadgeOf(e) ==
  [category |-> e.category, icon |-> CardCategoryIcon(e.category),
   label |-> CategoryLabel(e.category), count |-> Len(e.results)]

Badges(categories) ==
  LET shown == SelectSeq(CategoryEntries(categories), LAMBDA e : ShowBadge(e.results))
  IN [i \in 1..Len(shown) |-> BadgeOf(shown[i])]

\* <p>Total Results: {summary.total_results}</p>
CardTotal(data) == data.summary.total_results

\* summary.controversy_count > 0 && <p className="text-red-500">
ControversyLine_FromCategory(data) ==
  IF Len(data.categories["controversy"]) > 0
    THEN [shown |-> TRUE, count |-> Len(data.categories["controversy"])]
    ELSE [shown |-> FALSE, count |-> 0]
ControversyLine(data) ==
  IF data.summary.controversy_count > 0
    THEN [shown |-> TRUE, count |-> data.summary.controversy_count]
    ELSE [shown |-> FALSE, count |-> 0]

\* the card of one councillor; onClick is the path segment navigate() is given
CouncillorCard(name, data) ==
  [name |-> name,
   onClick |-> EncodeURIComponent(name),
   badges |-> Badges(data.categories),
   totalResults |-> CardTotal(data),
   controversyLine |-> ControversyLine(data)]

\* ------------------------------------------------------------------ Index
\* name.toLowerCase().includes(searchTerm.toLowerCase())
NameMatches(name, term) == Includes(ToLowerCase(name), ToLowerCase(term))

FilteredCouncillors(entries, term) ==
  SelectSeq(ObjectEntries(entries), LAMBDA e : NameMatches(e.name, term))

\* filteredCouncillors.length === 0 && <p>No councillors found ...</p>
EmptyMessage_WhenStoreEmpty(entries, term) == Len(ObjectEntries(entries)) = 0
EmptyMessage(entries, term) == Len(FilteredCouncillors(entries, term)) = 0

IndexRender(entries, term) ==
  LET filtered == FilteredCouncillors(entries, term)
  IN [kind |-> "list",
      input |-> term,
      cards |-> [i \in 1..Len(filtered) |-> CouncillorCard(filtered[i].name, filtered[i].data)],
      emptyMessage |-> EmptyMessage(entries, term)]

\* ------------------------------------------------------- CouncillorDetail
\* Number.prototype.toFixed(1) of q quarters, in tenths (ties go up)
ToFixed1(q) == (5 * q + 1) \div 2

ResultCard(result) ==
  [title |-> result.title, href |-> result.link, snippet |-> result.snippet,
   relevance |-> ToFixed1(result.relevance_score),
   searchTime |-> IF result.search_time # "" THEN result.search_time ELSE "omitted"]

DetailCategoryIcon(category) ==
  CASE category = "business_interests" -> "Briefcase"
    [] category = "controversy" -> "AlertTriangle"
    [] OTHER -> "null"

\* Object.entries(councillor.categories).filter(... not basic_info, social_media)
FilteredCategories_Unfiltered(categories) == CategoryEntries(categories)
FilteredCategories(categories) ==
  SelectSeq(CategoryEntries(categories),
            LAMBDA e : e.category \notin {"basic_info", "social_media"})

\* one AccordionItem
Section_Reversed(e, open) ==
  [category |-> e.category, icon |-> DetailCategoryIcon(e.category),
   label |-> CategoryLabel(e.category), count |-> Len(e.results),
   cards |-> [i \in 1..Len(e.results) |-> ResultCard(e.results[Len(e.results) + 1 - i])],
   noResults |-> (Len(e.results) = 0),
   expanded |-> (open = e.category)]
Section(e, open) ==
  [category |-> e.category, icon |-> DetailCategoryIcon(e.category),
   label |-> CategoryLabel(e.category), count |-> Len(e.results),
   cards |-> [i \in 1..Len(e.results) |-> ResultCard(e.results[i])],
   noResults |-> (Len(e.results) = 0),
   expanded |-> (open = e.category)]

\* useParams() of react-router: the matched path segment, URI-decoded by the
\* router when it is decodable and left as it is otherwise
UseParams(seg) == IF DecodeURIComponent(seg).ok THEN DecodeURIComponent(seg).value ELSE seg

\* the summary header of the detail view
Header_Recomputed(name, data) ==
  [title |-> name,
   totalResults |-> data.summary.total_results,
   controversyCount |-> Len(data.categories["controversy"]),
   potentialInterests |-> Len(data.summary.potential_interests)]
Header(name, data) ==
  [title |-> name,
   totalResults |-> data.summary.total_results,
   controversyCount |-> data.summary.controversy_count,
   potentialInterests |-> Len(data.summary.potential_interests)]

DetailRender(entries, seg, open) ==
  LET name == UseParams(seg)
  IN IF name = <<>> THEN [kind |-> "null"]
     ELSE LET decoded == DecodeURIComponent(name)
          IN IF ~decoded.ok THEN [kind |-> "exception", error |-> "URIError"]
             ELSE LET councillor == PropertyGet(entries, decoded.value)
                  IN IF councillor.kind = "undefined" THEN [kind |-> "notfound"]
                     ELSE IF councillor.kind = "inherited"
                       \* Object.entries(undefined)
                       THEN [kind |-> "exception", error |-> "TypeError"]
                     ELSE LET cats == FilteredCategories(councillor.data.categories)
                          IN [kind |-> "detail",
                              header |-> Header(decoded.value, councillor.data),
                              sections |-> [i \in 1..Len(cats) |-> Section(cats[i], open)]]

\* ------------------------------------------------------------------- state
VARIABLES
  store,        \* the imported councillor_results.json
  route,        \* "list" for /, "detail" for /councillor/:name
  segment,      \* the path segment matched by :name
  searchTerm,   \* Index: useState("")
  openSection,  \* the Accordion's open item, "none" when all are collapsed
  view          \* what the mounted component rendered

vars == <<store, route, segment, searchTerm, openSection, view>>

\* values one keystroke makes of the search text: a character typed at the
\* end, or the last character deleted
Keystrokes(term) ==
  (IF Len(term) < MaxTermLen THEN {Append(term, c) : c \in Alphabet} ELSE {})
  \cup (IF term # <<>> THEN {SubSeq(term, 1, Len(term) - 1)} ELSE {})

\* path segments a browser can open: the short ones, and constructor, %41,
\* %2541, %25
Segments ==
  (StringsUpTo(MaxSegLen) \ {<<>>})
  \cup { <<99, 111, 110, 115, 116, 114, 117, 99, 116, 111, 114>>,
         <<37, 52, 49>>, <<37, 50, 53, 52, 49>>, <<37, 50, 53>> }

Init ==
  /\ store \in StoreUniverse
  /\ route = "list"
  /\ segment = <<>>
  /\ searchTerm = <<>>
  /\ openSection = "none"
  /\ view = IndexRender(store, <<>>)

\* Index: onChange={(e) => setSearchTerm(e.target.value)}, then the re-render
OnChange_TouchesStore(v) ==
  /\ route = "list"
  /\ v # searchTerm
  /\ searchTerm' = v
  /\ store' = SelectSeq(store, LAMBDA e : NameMatches(e.name, v))
  /\ view' = IndexRender(store', v)
  /\ UNCHANGED <<route, segment, openSection>>
OnChange(v) ==
  /\ route = "list"
  /\ v # searchTerm
  /\ searchTerm' = v
  /\ view' = IndexRender(store, v)
  /\ UNCHANGED <<store, route, segment, openSection>>

\* CouncillorCard: onClick={() => navigate(`/councillor/${encodeURIComponent(name)}`)}
\* on the i-th rendered card; CouncillorDetail mounts and renders
ClickCard(i) ==
  /\ route = "list"
  /\ i \in 1..Len(view.cards)
  /\ route' = "detail"
  /\ segment' = view.cards[i].onClick
  /\ searchTerm' = <<>>
  /\ openSection' = "none"
  /\ view' = DetailRender(store, segment', "none")
  /\ UNCHANGED store

\* the browser loads /councillor/<seg>; a page load keeps nothing of the page
\* it leaves, so it is taken from the freshly loaded list
OpenDetail(seg) ==
  /\ route = "list"
  /\ searchTerm = <<>>
  /\ route' = "detail"
  /\ segment' = seg
  /\ searchTerm' = <<>>
  /\ openSection' = "none"
  /\ view' = DetailRender(store, seg, "none")
  /\ UNCHANGED store

\* CouncillorDetail: <Button onClick={() => navigate('/')}>; Index mounts anew
BackToList ==
  /\ route = "detail"
  /\ view.kind = "detail"
  /\ route' = "list"
  /\ segment' = <<>>
  /\ searchTerm' = <<>>
  /\ openSection' = "none"
  /\ view' = IndexRender(store, <<>>)
  /\ UNCHANGED store

\* the browser opens / from a detail route
OpenIndex ==
  /\ route = "detail"
  /\ route' = "list"
  /\ segment' = <<>>
  /\ searchTerm' = <<>>
  /\ openSection' = "none"
  /\ view' = IndexRender(store, <<>>)
  /\ UNCHANGED store

\* <Accordion type="single" collapsible>: a click on the trigger of category
ToggleSection(category) ==
  /\ route = "detail"
  /\ view.kind = "detail"
  /\ \E i \in 1..Len(view.sections) : view.sections[i].category = category
  /\ openSection' = IF openSection = category THEN "none" ELSE category
  /\ view' = DetailRender(store, segment, openSection')
  /\ UNCHANGED <<store, route, segment, searchTerm>>

Next ==
  \/ \E v \in Keystrokes(searchTerm) : OnChange(v)
  \/ \E i \in 1..MaxStore : ClickCard(i)
  \/ \E seg \in Segments : OpenDetail(seg)
  \/ BackToList
  \/ OpenIndex
  \/ \E category \in CategoryNames : ToggleSection(category)

Spec == Init /\ [][Next]_vars

\* ------------------------------------------------------------- properties
\* two code points are the same letter up to ASCII case
SameLetter(c, d) ==
  \/ c = d
  \/ (c >= 65 /\ c <= 90 /\ d = c + 32)
  \/ (d >= 65 /\ d <= 90 /\ c = d + 32)

\* name contains s as a case-insensitive substring
ContainsIgnoringCase(name, s) ==
  \E k \in 0..(Len(name) - Len(s)) : \A j \in 1..Len(s) : SameLetter(name[k + j], s[j])

StoreEntries == {store[i] : i \in 1..Len(store)}

MatchingEntries == {e \in StoreEntries : ContainsIgnoringCase(e.name, searchTerm)}

CardsNamed(n) == {j \in 1..Len(view.cards) : view.cards[j].name = n}

EntryNamed(n) == CHOOSE e \in StoreEntries : e.name = n

OnList == route = "list" /\ view.kind = "list"

OnFoundDetail == route = "detail" /\ view.kind = "detail"

\* C1: on the list view, there is exactly one card for every store entry
\* whose name contains the search text as a case-insensitive substring, no
\* card for any other entry, and with an empty search text every entry has
\* a card.
C1_ListShowsExactlyTheMatches ==
  route = "list" =>
    /\ view.kind = "list"
    /\ view.input = searchTerm
    /\ \A e \in MatchingEntries : Cardinality(CardsNamed(e.name)) = 1
    /\ \A j \in 1..Len(view.cards) : \E e \in MatchingEntries : e.name = view.cards[j].name
    /\ (searchTerm = <<>> => Len(view.cards) = Len(store))

\* a search text that matches one entry only through case folding and
\* leaves another entry out
C1_Witness ==
  /\ OnList
  /\ searchTerm # <<>>
  /\ Len(view.cards) >= 1
  /\ Len(view.cards) < Len(store)
  /\ \E j \in 1..Len(view.cards) : ~Includes(view.cards[j].name, searchTerm)

\* C2 as stated: with N the length of categories.controversy, N > 0 makes
\* the card's controversy line and the detail header show N, and N = 0
\* leaves the controversy line out of the card.
C2_CountOfCategoryDisplayed ==
  /\ OnList =>
       \A j \in 1..Len(view.cards) :
         LET N == Len(EntryNamed(view.cards[j].name).data.categories["controversy"])
         IN /\ N > 0 => view.cards[j].controversyLine = [shown |-> TRUE, count |-> N]
            /\ N = 0 => ~view.cards[j].controversyLine.shown
  /\ OnFoundDetail =>
       LET N == Len(EntryNamed(view.header.title).data.categories["controversy"])
       IN N > 0 => view.header.controversyCount = N

\* C2 amended: with N the stored summary.controversy_count, N > 0 makes the
\* card's controversy line and the detail header show N, and N = 0 leaves
\* the controversy line out of the card.
C2_SummaryCountDisplayed ==
  /\ OnList =>
       \A j \in 1..Len(view.cards) :
         LET N == EntryNamed(view.cards[j].name).data.summary.controversy_count
         IN /\ N > 0 => view.cards[j].controversyLine = [shown |-> TRUE, count |-> N]
            /\ N = 0 => ~view.cards[j].controversyLine.shown
  /\ OnFoundDetail =>
       LET N == EntryNamed(view.header.title).data.summary.controversy_count
       IN N > 0 => view.header.controversyCount = N

\* a card with the red line for a councillor who has no controversy result
C2_Witness ==
  /\ OnList
  /\ searchTerm # <<>>
  /\ \E j \in 1..Len(view.cards) :
       /\ view.cards[j].controversyLine.shown
       /\ view.cards[j].controversyLine.count = MaxCount
       /\ Len(EntryNamed(view.cards[j].name).data.categories["controversy"]) = 0

\* C3: a detail route whose decoded parameter is not a key of the store
\* renders the not-found message and nothing else, and the detail view has
\* no other error outcome (it never throws).
C3_UnknownNameRendersNotFound ==
  route = "detail" =>
    /\ view.kind # "exception"
    /\ (DecodeURIComponent(UseParams(segment)).ok
        /\ DecodeURIComponent(UseParams(segment)).value \notin StoreKeys(store))
         => view = [kind |-> "notfound"]

\* C4: the route a card navigates to (the name URL-encoded) makes the
\* detail view decode exactly that name and display the record stored
\* under it.
C4_CardRouteShowsItsRecord ==
  \A e \in StoreEntries :
    (route = "detail" /\ segment = EncodeURIComponent(e.name)) =>
      /\ view.kind = "detail"
      /\ view.header.title = e.name
      /\ view.header.totalResults = e.data.summary.total_results
      /\ view.header.controversyCount = e.data.summary.controversy_count

\* C5: on the list view the empty-state message is shown exactly when no
\* store entry matches the search text, and then no card is rendered.
C5_EmptyMessageIffNoMatch ==
  route = "list" =>
    /\ view.emptyMessage <=> (MatchingEntries = {})
    /\ view.emptyMessage => Len(view.cards) = 0

\* a non-empty store none of whose names matches the search text
C5_Witness ==
  /\ OnList
  /\ Len(store) > 0
  /\ searchTerm # <<>>
  /\ view.emptyMessage

\* C6: the accordion sections of a found councillor are exactly the
\* categories other than basic_info and social_media, once each.
C6_IdentityCategoriesNeverSections ==
  OnFoundDetail =>
    /\ \A i \in 1..Len(view.sections) :
         view.sections[i].category \notin {"basic_info", "social_media"}
    /\ {view.sections[i].category : i \in 1..Len(view.sections)}
         = CategoryNames \ {"basic_info", "social_media"}
    /\ Len(view.sections) = Cardinality(CategoryNames \ {"basic_info", "social_media"})

\* the detail view of a councillor with basic_info and social_media results
C6_Witness ==
  /\ OnFoundDetail
  /\ Len(EntryNamed(view.header.title).data.categories["basic_info"]) > 0
  /\ Len(EntryNamed(view.header.title).data.categories["social_media"]) > 0

\* C7: a card has a badge for a category exactly when the category has at
\* least one result, and the badge's count is the number of its results.
C7_BadgeIffResults ==
  OnList =>
    \A j \in 1..Len(view.cards) :
      LET cats == EntryNamed(view.cards[j].name).data.categories
          badges == view.cards[j].badges
      IN \A c \in CategoryNames :
           LET of_c == {b \in 1..Len(badges) : badges[b].category = c}
           IN /\ Len(cats[c]) > 0 => (Cardinality(of_c) = 1 /\ \A b \in of_c : badges[b].count = Len(cats[c]))
              /\ Len(cats[c]) = 0 => of_c = {}

\* a card with a badge counting two results and a category without badge
C7_Witness ==
  /\ OnList
  /\ searchTerm # <<>>
  /\ \E j \in 1..Len(view.cards) :
       /\ \E b \in 1..Len(view.cards[j].badges) : view.cards[j].badges[b].count = 2
       /\ Len(view.cards[j].badges) < Len(CategoryOrder)

\* C8: every section of the detail view shows the number of results of its
\* category, holds one result card per result in the stored order, and
\* shows 'No results found' exactly when the category is empty.
C8_SectionsListResultsInOrder ==
  OnFoundDetail =>
    \A i \in 1..Len(view.sections) :
      LET results == EntryNamed(view.header.title).data.categories[view.sections[i].category]
          sec == view.sections[i]
      IN /\ sec.count = Len(results)
         /\ Len(sec.cards) = Len(results)
         /\ \A k \in 1..Len(results) :
              /\ sec.cards[k].title = results[k].title
              /\ sec.cards[k].href = results[k].link
              /\ sec.cards[k].snippet = results[k].snippet
         /\ sec.noResults <=> (Len(results) = 0)

\* a detail view with a section of two different results, expanded, and an
\* empty section
C8_Witness ==
  /\ OnFoundDetail
  /\ \E i \in 1..Len(view.sections) :
       /\ Len(view.sections[i].cards) = 2
       /\ view.sections[i].cards[1] # view.sections[i].cards[2]
       /\ view.sections[i].expanded
  /\ \E i \in 1..Len(view.sections) : view.sections[i].noResults

\* C9: no step changes the store, and a keystroke in the search box changes
\* nothing but the search text (and the list rendered from it).
C9_StoreNeverChanges ==
  [][/\ store' = store
     /\ (route = "list" /\ route' = "list" /\ searchTerm' # searchTerm)
          => (segment' = segment /\ openSection' = openSection)]_vars

\* a keystroke has been handled on a store with entries
C9_Witness ==
  /\ OnList
  /\ Len(store) = MaxStore
  /\ Len(searchTerm) = MaxTermLen
  /\ Len(view.cards) = 1

\* C10: the card and the detail header show summary.total_results and
\* summary.controversy_count as stored, whatever the categories hold.
C10_SummaryShownAsStored ==
  /\ OnList =>
       \A j \in 1..Len(view.cards) :
         LET sm == EntryNamed(view.cards[j].name).data.summary
         IN /\ view.cards[j].totalResults = sm.total_results
            /\ view.cards[j].controversyLine.shown =>
                 view.cards[j].controversyLine.count = sm.controversy_count
            /\ ~view.cards[j].controversyLine.shown => sm.controversy_count <= 0
  /\ OnFoundDetail =>
       LET sm == EntryNamed(view.header.title).data.summary
       IN /\ view.header.totalResults = sm.total_results
          /\ view.header.controversyCount = sm.controversy_count

\* the detail header of a councillor whose summary disagrees with the
\* categories in both numbers
C10_Witness ==
  /\ OnFoundDetail
  /\ view.header.totalResults # TotalLen(EntryNamed(view.header.title).data.categories)
  /\ view.header.controversyCount
       # Len(EntryNamed(view.header.title).data.categories["controversy"])

====
